---- MODULE Spec2Model ----
(***************************************************************************)
(* Model of the PC1550 keypad emulator (PC1550.h / PC1550.cpp).            *)
(*                                                                         *)
(* The object's fields are the record pc1550.  processClockCycle() is the  *)
(* operator ProcessClockCycle, composed of the four blocks of its body in  *)
(* source order: Resync, FallingEdge, RisingEdge, FrameCompletion.         *)
(*                                                                         *)
(* `clock' is the value digitalRead(clockpin) returns.  Following the      *)
(* comments of the source, clock = FALSE is the idle level the panel holds *)
(* between frames ("idle-high" in the specification), a FALSE->TRUE change *)
(* is the edge on which a status bit is read ("rising edge"), and a        *)
(* TRUE->FALSE change is the edge on which a keypad bit is read ("falling  *)
(* edge").                                                                 *)
(***************************************************************************)
EXTENDS Integers, Sequences, FiniteSets, TLC

(***************************************************************************)
(* Bounds of the model.                                                    *)
(***************************************************************************)
\* panel frames started in one behaviour
MaxFrames == 3
\* intervals in which the caller does not poll, in one behaviour
MaxStarve == 1
\* value at which the measured idle time saturates (anything above the band)
IdleCap == 30000

(***************************************************************************)
(* Timing of the panel, from the header comment of PC1550.cpp.             *)
(***************************************************************************)
\* half of one clock cycle of 1500 us
HalfCycle == 750
\* the idle gap between two frames, 26.5 ms
GapNominal == 26500
\* the band of the resynchronization test
ResyncLow == 25000
ResyncHigh == 28000

(***************************************************************************)
(* Bit arithmetic on naturals.                                             *)
(***************************************************************************)
Pow2(n) == 2 ^ n

Bit(x, i) == (x \div Pow2(i)) % 2

\* x | v for v being 0 or a single bit 2^j
OrBit(x, v) ==
  IF v = 0 THEN x
  ELSE LET j == CHOOSE k \in 0..31 : Pow2(k) = v
       IN  IF Bit(x, j) = 1 THEN x ELSE x + v

B2N(b) == IF b THEN 1 ELSE 0

\* The outcomes of a shift by a negative count (undefined behaviour); which
\* one a build produces is fixed when the program is compiled.
UBOutcomes == {"zero", "masked"}

\* (b << s) truncated to w bits, b in {0,1}.  A negative s is undefined
\* behaviour: the result is 0 (the count exceeds the width) or the shift by
\* the count masked to five bits.
ShiftLeft(b, s, w, ub) ==
  IF s >= w THEN 0
  ELSE IF s >= 0 THEN (b * Pow2(s)) % Pow2(w)
  ELSE IF ub = "zero" THEN 0
  ELSE IF s % 32 >= w THEN 0
  ELSE b * Pow2(s % 32)

(***************************************************************************)
(* Key Code Table.                                                         *)
(***************************************************************************)
\* the character '\0'
NUL == "NUL"

KeySymbols == {"1", "2", "3", "4", "5", "6", "7", "8", "9", "*", "0", "#", "F", "A", "P"}

\* a table that decodes the codes of 'F' and 'A' as each other
getKeyCharSwapped(value) ==
  CASE value = 65 -> "1"
    [] value = 33 -> "2"
    [] value = 17 -> "3"
    [] value = 66 -> "4"
    [] value = 34 -> "5"
    [] value = 18 -> "6"
    [] value = 68 -> "7"
    [] value = 36 -> "8"
    [] value = 20 -> "9"
    [] value = 72 -> "*"
    [] value = 40 -> "0"
    [] value = 24 -> "#"
    [] value = 64 -> "A"
    [] value = 32 -> "F"
    [] value = 16 -> "P"
    [] OTHER -> NUL

getKeyChar(value) ==
  CASE value = 65 -> "1"
    [] value = 33 -> "2"
    [] value = 17 -> "3"
    [] value = 66 -> "4"
    [] value = 34 -> "5"
    [] value = 18 -> "6"
    [] value = 68 -> "7"
    [] value = 36 -> "8"
    [] value = 20 -> "9"
    [] value = 72 -> "*"
    [] value = 40 -> "0"
    [] value = 24 -> "#"
    [] value = 64 -> "F"
    [] value = 32 -> "A"
    [] value = 16 -> "P"
    [] OTHER -> NUL

getKeyValueAnyDefault(key) ==
  CASE key = "1" -> 65
    [] key = "2" -> 33
    [] key = "3" -> 17
    [] key = "4" -> 66
    [] key = "5" -> 34
    [] key = "6" -> 18
    [] key = "7" -> 68
    [] key = "8" -> 36
    [] key = "9" -> 20
    [] key = "*" -> 72
    [] key = "0" -> 40
    [] key = "#" -> 24
    [] key = "F" -> 64
    [] key = "A" -> 32
    [] key = "P" -> 16
    [] OTHER -> 127

getKeyValue(key) ==
  CASE key = "1" -> 65
    [] key = "2" -> 33
    [] key = "3" -> 17
    [] key = "4" -> 66
    [] key = "5" -> 34
    [] key = "6" -> 18
    [] key = "7" -> 68
    [] key = "8" -> 36
    [] key = "9" -> 20
    [] key = "*" -> 72
    [] key = "0" -> 40
    [] key = "#" -> 24
    [] key = "F" -> 64
    [] key = "A" -> 32
    [] key = "P" -> 16
    [] OTHER -> 0

(***************************************************************************)
(* The object after construction.                                          *)
(***************************************************************************)
Constructed ==
  [ synchronized |-> FALSE,
    last_clock |-> TRUE,
    key_to_send |-> 0,
    keyHoldCycles |-> 0,
    bKeyPressed |-> FALSE,
    key_released_data |-> 0,
    cyclesWithoutKey |-> 0,
    transmitting |-> FALSE,
    controller_bits_read |-> 0,
    controller_data |-> 0,
    available_controller_data |-> 0,
    keypad_bits_read |-> 0,
    keypad_data |-> 0,
    available_keypad_data |-> 0,
    keypad_bits_sent |-> 0,
    iConsecutiveBeeps |-> 0,
    iConsecutiveKeyPressCycles |-> 0,
    bStateChanged |-> FALSE,
    bTransmissionEnd |-> FALSE,
    pc16out_data |-> 0,
    available_pc16out_data |-> 0,
    \* pinMode of datapin: "INPUT" floats, "OUTPUT" drives the line low
    datapin_mode |-> "INPUT" ]

(***************************************************************************)
(* Accessors.                                                              *)
(***************************************************************************)
atTransmissionEnd(e) == e.bTransmissionEnd

\* a beep test that is true for any lit bit of the status word
BeepAnyBit(e) == e.available_controller_data # 0

\* (available_controller_data << 15 >> 15) on a 16-bit unsigned
Beep(e) == ((e.available_controller_data * Pow2(15)) % Pow2(16)) \div Pow2(15) # 0

\* keypadStateChanged() (lines 200-202)
keypadStateChanged(e) == e.bStateChanged

\* keyPressed() (lines 204-208)
keyPressed(e) == IF ~e.bKeyPressed THEN NUL ELSE getKeyChar(e.available_keypad_data)

\* keyReleased() (lines 210-214)
keyReleased(e) ==
  IF e.key_released_data = 0 THEN NUL ELSE getKeyChar(e.key_released_data)

\* consecutiveBeeps() (lines 264-266)
consecutiveBeeps(e) == e.iConsecutiveBeeps

\* consecutiveKeyPresses() (lines 272-274)
consecutiveKeyPresses(e) == e.iConsecutiveKeyPressCycles

\* readyForKeyPress() (lines 276-281)
readyForKeyPress(e) ==
  IF e.keyHoldCycles > 0 \/ e.cyclesWithoutKey < 1 THEN FALSE ELSE TRUE

(***************************************************************************)
(* sendKey: the object after the call, and the value returned.             *)
(***************************************************************************)
sendKeyReturn(e, c) ==
  IF ~readyForKeyPress(e) THEN FALSE
  ELSE IF getKeyValue(c) = 0 THEN FALSE
  ELSE TRUE

\* a sendKey that always asks for one frame
sendKeyOneCycle(e, c, holdCycles) ==
  IF ~readyForKeyPress(e) THEN e
  ELSE LET keyval == getKeyValue(c)
       IN  IF keyval = 0 THEN e
           ELSE [e EXCEPT !.key_to_send = keyval, !.keyHoldCycles = 1]

sendKey(e, c, holdCycles) ==
  IF ~readyForKeyPress(e) THEN e
  ELSE LET keyval == getKeyValue(c)
       IN  IF keyval = 0 THEN e
           ELSE [e EXCEPT !.key_to_send = keyval, !.keyHoldCycles = holdCycles]

(***************************************************************************)
(* processClockCycle, block by block.                                      *)
(***************************************************************************)
\* the resynchronization test (lines 446-458)
\* the test with the ends of the band included
InResyncBandInclusive(clock, t) == ~clock /\ t >= ResyncLow /\ t <= ResyncHigh

InResyncBand(clock, t) == ~clock /\ t > ResyncLow /\ t < ResyncHigh

Resync(e, clock, t) ==
  IF InResyncBand(clock, t)
  THEN [e EXCEPT !.synchronized = TRUE,
                 !.controller_bits_read = 0,
                 !.controller_data = 0,
                 !.pc16out_data = 0,
                 !.keypad_bits_read = 0,
                 !.keypad_data = 0,
                 !.keypad_bits_sent = 0]
  ELSE e

\* the keypad bit stored as read, without the inversion
FallingEdgeNotInverted(e, clock, data2, ub) ==
  IF ~clock /\ e.last_clock # clock
     /\ e.controller_bits_read > 0 /\ e.controller_bits_read < 8
  THEN LET bitValue == B2N(data2)
       IN  [e EXCEPT !.keypad_data =
                        OrBit(@, ShiftLeft(bitValue, 6 - e.keypad_bits_read, 8, ub)),
                     !.keypad_bits_read = (@ + 1) % 256]
  ELSE e

\* the keypad bit read on a TRUE->FALSE change of the clock (lines 462-488);
\* data2 is the second digitalRead(datapin), after the settling delay
FallingEdge(e, clock, data2, ub) ==
  IF ~clock /\ e.last_clock # clock
     /\ e.controller_bits_read > 0 /\ e.controller_bits_read < 8
  THEN LET bitValue == B2N(~data2)
       IN  [e EXCEPT !.keypad_data =
                        OrBit(@, ShiftLeft(bitValue, 6 - e.keypad_bits_read, 8, ub)),
                     !.keypad_bits_read = (@ + 1) % 256]
  ELSE e

\* acc | (bit << n), most significant bit last: what an LSB-first store would do
StoreBitLsbFirst(acc, bit, n, ub) == OrBit(acc, ShiftLeft(B2N(bit), n, 16, ub))

\* acc |= ((uint16_t)bit) << (15 - n)   (lines 498-499 and 502-503)
StoreBit(acc, bit, n, ub) == OrBit(acc, ShiftLeft(B2N(bit), 15 - n, 16, ub))

\* a rising edge that starts transmitting at bit 1 without synchronization
RisingEdgeUnsynchronizedKey(e, clock, data, pgmData, ub) ==
  IF clock /\ e.last_clock # clock
  THEN LET n == e.controller_bits_read
           n1 == (n + 1) % 256
           first == e.synchronized /\ n1 = 1
           cwk == IF first
                  THEN IF e.key_to_send # 0 THEN 0 ELSE (e.cyclesWithoutKey + 1) % 256
                  ELSE e.cyclesWithoutKey
           tr1 == IF n1 = 1 /\ e.key_to_send # 0 THEN TRUE ELSE e.transmitting
           tr2 == IF n1 >= 8 THEN FALSE ELSE tr1
           drive == tr2 /\ Bit(e.key_to_send, 7 - n1) = 1
           last == tr2 /\ n1 = 7
           hold == IF last /\ e.keyHoldCycles > 0
                   THEN e.keyHoldCycles - 1 ELSE e.keyHoldCycles
           key == IF last /\ hold = 0 THEN 0 ELSE e.key_to_send
       IN  [e EXCEPT !.controller_data = StoreBit(@, data, n, ub),
                     !.pc16out_data = StoreBit(@, pgmData, n, ub),
                     !.controller_bits_read = n1,
                     !.cyclesWithoutKey = cwk,
                     !.transmitting = tr2,
                     !.datapin_mode = IF drive THEN "OUTPUT" ELSE "INPUT",
                     !.keyHoldCycles = hold,
                     !.key_to_send = key]
  ELSE e

\* the status bit read on a FALSE->TRUE change of the clock (lines 492-548)
RisingEdge(e, clock, data, pgmData, ub) ==
  IF clock /\ e.last_clock # clock
  THEN LET n == e.controller_bits_read
           n1 == (n + 1) % 256
           first == e.synchronized /\ n1 = 1
           cwk == IF first
                  THEN IF e.key_to_send # 0 THEN 0 ELSE (e.cyclesWithoutKey + 1) % 256
                  ELSE e.cyclesWithoutKey
           tr1 == IF first /\ e.key_to_send # 0 THEN TRUE ELSE e.transmitting
           tr2 == IF n1 >= 8 THEN FALSE ELSE tr1
           drive == tr2 /\ Bit(e.key_to_send, 7 - n1) = 1
           last == tr2 /\ n1 = 7
           hold == IF last /\ e.keyHoldCycles > 0
                   THEN e.keyHoldCycles - 1 ELSE e.keyHoldCycles
           key == IF last /\ hold = 0 THEN 0 ELSE e.key_to_send
       IN  [e EXCEPT !.controller_data = StoreBit(@, data, n, ub),
                     !.pc16out_data = StoreBit(@, pgmData, n, ub),
                     !.controller_bits_read = n1,
                     !.cyclesWithoutKey = cwk,
                     !.transmitting = tr2,
                     !.datapin_mode = IF drive THEN "OUTPUT" ELSE "INPUT",
                     !.keyHoldCycles = hold,
                     !.key_to_send = key]
  ELSE e

\* a classification that reports a held key as pressed again
KeyEventsRepeating(e) ==
  IF e.keypad_data # 0
  THEN IF e.available_keypad_data = 0 \/ e.available_keypad_data = e.keypad_data
       THEN [e EXCEPT !.bKeyPressed = TRUE,
                      !.key_released_data = 0,
                      !.iConsecutiveKeyPressCycles = 1]
       ELSE [e EXCEPT !.bKeyPressed = TRUE,
                      !.iConsecutiveKeyPressCycles = 1,
                      !.key_released_data = e.available_keypad_data]
  ELSE IF e.available_keypad_data # 0
       THEN [e EXCEPT !.bKeyPressed = FALSE,
                      !.key_released_data = e.available_keypad_data]
       ELSE [e EXCEPT !.key_released_data = 0,
                      !.bKeyPressed = FALSE,
                      !.iConsecutiveKeyPressCycles = 0]

\* the Derived State Interpreter's press / release classification (lines 557-591)
KeyEvents(e) ==
  IF e.keypad_data # 0
  THEN IF e.available_keypad_data = e.keypad_data
       THEN [e EXCEPT !.bKeyPressed = FALSE,
                      !.key_released_data = 0,
                      !.iConsecutiveKeyPressCycles = (@ + 1) % 256]
       ELSE IF e.available_keypad_data = 0
       THEN [e EXCEPT !.bKeyPressed = TRUE,
                      !.key_released_data = 0,
                      !.iConsecutiveKeyPressCycles = 1]
       ELSE [e EXCEPT !.bKeyPressed = TRUE,
                      !.iConsecutiveKeyPressCycles = 1,
                      !.key_released_data = e.available_keypad_data]
  ELSE IF e.available_keypad_data # 0
       THEN [e EXCEPT !.bKeyPressed = FALSE,
                      !.key_released_data = e.available_keypad_data]
       ELSE [e EXCEPT !.key_released_data = 0,
                      !.bKeyPressed = FALSE,
                      !.iConsecutiveKeyPressCycles = 0]

\* a test that waits for one bit too many
FrameReceivedOneLate(e) == e.synchronized /\ e.controller_bits_read = 17

\* a test that does not ask for synchronization
FrameReceivedUnsynchronized(e) == e.controller_bits_read = 16

\* if (synchronized && controller_bits_read == 16)   (line 551)
FrameReceived(e) == e.synchronized /\ e.controller_bits_read = 16

\* the end of a frame that leaves the engine synchronized
FrameCompletionKeepingSync(e) ==
  IF FrameReceived(e)
  THEN LET e1 == [e EXCEPT !.bStateChanged =
                              (e.available_controller_data # e.controller_data)]
           e2 == KeyEvents(e1)
           e3 == [e2 EXCEPT !.available_keypad_data = e.keypad_data,
                            !.available_controller_data = e.controller_data,
                            !.available_pc16out_data = e.pc16out_data]
           e4 == [e3 EXCEPT !.iConsecutiveBeeps = IF ~Beep(e3) THEN 0 ELSE @ + 1]
       IN  [e4 EXCEPT !.bTransmissionEnd = TRUE,
                      !.controller_bits_read = 0]
  ELSE e

\* the end of a frame that never takes back "state changed"
FrameCompletionAccumulating(e) ==
  IF FrameReceived(e)
  THEN LET e1 == [e EXCEPT !.bStateChanged =
                              (@ \/ e.available_controller_data # e.controller_data)]
           e2 == KeyEvents(e1)
           e3 == [e2 EXCEPT !.available_keypad_data = e.keypad_data,
                            !.available_controller_data = e.controller_data,
                            !.available_pc16out_data = e.pc16out_data]
           e4 == [e3 EXCEPT !.iConsecutiveBeeps = IF ~Beep(e3) THEN 0 ELSE @ + 1]
       IN  [e4 EXCEPT !.bTransmissionEnd = TRUE,
                      !.synchronized = FALSE,
                      !.controller_bits_read = 0]
  ELSE e

\* the end of a frame (lines 551-608)
FrameCompletion(e) ==
  IF FrameReceived(e)
  THEN LET e1 == [e EXCEPT !.bStateChanged =
                              (e.available_controller_data # e.controller_data)]
           e2 == KeyEvents(e1)
           e3 == [e2 EXCEPT !.available_keypad_data = e.keypad_data,
                            !.available_controller_data = e.controller_data,
                            !.available_pc16out_data = e.pc16out_data]
           e4 == [e3 EXCEPT !.iConsecutiveBeeps = IF ~Beep(e3) THEN 0 ELSE @ + 1]
       IN  [e4 EXCEPT !.bTransmissionEnd = TRUE,
                      !.synchronized = FALSE,
                      !.controller_bits_read = 0]
  ELSE e

\* a call that does not clear the end-of-transmission flag on entry
ProcessClockCycleKeepingEnd(e, clock, data, pgmData, data2, t, ub) ==
  LET e1 == Resync(e, clock, t)
      e2 == FallingEdge(e1, clock, data2, ub)
      e3 == RisingEdge(e2, clock, data, pgmData, ub)
      e4 == FrameCompletion(e3)
  IN  [e4 EXCEPT !.last_clock = clock]

\* one call of processClockCycle() (lines 429-611)
ProcessClockCycle(e, clock, data, pgmData, data2, t, ub) ==
  LET e0 == [e EXCEPT !.bTransmissionEnd = FALSE]
      e1 == Resync(e0, clock, t)
      e2 == FallingEdge(e1, clock, data2, ub)
      e3 == RisingEdge(e2, clock, data, pgmData, ub)
      e4 == FrameCompletion(e3)
  IN  [e4 EXCEPT !.last_clock = clock]

(***************************************************************************)
(* The environment: the panel, the bus and the caller.                     *)
(***************************************************************************)
\* The contents of a panel frame: the 16 status bits, the 16 bits on the PGM
\* line, and the 7-bit code another keypad on the bus sends (0 = no key).
QuietFrame == [status |-> 0, aux |-> 0, keypad |-> 0]

FrameKinds ==
  { [status |-> 42435, aux |-> 23100, keypad |-> 34],
    [status |-> 23100, aux |-> 42435, keypad |-> 0] }

\* the moments of the idle gap at which the model looks at the bus
GapPoints == {24250, 25000, 26500, 27250, 28000}
\* the lengths of the idle gap a panel may produce: short, nominal, long
GapEnds == {24250, GapNominal, 28000}
\* the frame positions at which the caller may stop polling
StarveFrom == {7, 12}
\* the moments of the idle gap at which it polls again
StarveUntil == {12000, GapNominal}

\* what the application passes to sendKey
SendSymbols == {"1", "X"}
HoldCycles == {0, 2}

\* one frame period: 16 clock cycles and the idle gap
FramePeriod == 32 * HalfCycle + GapNominal

VARIABLES
  pc1550,     \* the fields of the PC1550 object
  idle,       \* micros() - last_read, saturated at IdleCap
  clockLine,  \* the level digitalRead(clockpin) returns
  pos,        \* panel: clock cycles begun in the current frame, 0 in the idle gap
  gapT,       \* panel: time spent in the current idle gap
  frame,      \* panel: contents of the current frame
  frames,     \* panel: frames started
  observed,   \* a tick has sampled the bus since the panel last changed it
  starved,    \* time the caller has not polled, saturated above FramePeriod
  starves,    \* intervals without polling so far
  pc,         \* the caller: "main" or "wait" (inside processTransmissionCycle)
  op,         \* the last operation and what it observed
  hist,       \* levels sampled since the last resynchronization
  wait,       \* bookkeeping of the current processTransmissionCycle call
  txlog,      \* bookkeeping of key transmissions
  build       \* what this build does on a shift by a negative count

vars == <<pc1550, idle, clockLine, pos, gapT, frame, frames, observed,
          starved, starves, pc, op, hist, wait, txlog, build>>

panelVars == <<clockLine, pos, gapT, frame, frames>>

Min(a, b) == IF a < b THEN a ELSE b

NoOp(name) ==
  [name |-> name, resync |-> FALSE, rising |-> FALSE, falling |-> FALSE,
   sampled |-> FALSE, reset |-> FALSE, afterStarve |-> FALSE, fresh |-> FALSE,
   c |-> NUL, ret |-> FALSE, wasReady |-> FALSE,
   returned |-> FALSE, frames |-> 0, ends |-> 0]

\* data, aux, kp: the levels read at the rising edges and at the keypad
\* samples since the last resynchronization; fresh: a resynchronization has
\* happened since the last completed frame; aligned: the resynchronization
\* happened in the idle gap of the panel and every change of the bus since
\* then has been polled
NoHist == [data |-> <<>>, aux |-> <<>>, kp |-> <<>>, fresh |-> FALSE, aligned |-> FALSE]

\* Bookkeeping of key transmissions.  newReq: a request has been accepted and
\* has not driven the line yet; everDrove: the line has been driven;
\* open: a synchronized frame has begun and neither completed nor been
\* resynchronized away; droveInFrame: the line was driven in that frame;
\* quiet: a synchronized frame without driving has ended since the last
\* drive; ok: no request has begun to drive without such a frame before it
\* drove: the frame positions at which the line was driven in that frame;
\* late: a request was accepted after the first rising edge of that frame
NoTx == [newReq |-> FALSE, everDrove |-> FALSE, open |-> FALSE,
         droveInFrame |-> FALSE, quiet |-> FALSE, ok |-> TRUE,
         drove |-> {}, late |-> FALSE]

NoWait == [frames |-> 0, ends |-> 0]

\* the level the panel puts on the data line while the clock reads TRUE
PanelDataLevel == IF pos \in 1..16 THEN Bit(frame.status, 16 - pos) = 1 ELSE TRUE

\* the level on the PGM line
PgmRead == IF pos \in 1..16 THEN Bit(frame.aux, 16 - pos) = 1 ELSE FALSE

\* the level another keypad leaves on the data line while the clock reads
\* FALSE: low in the slots of the set bits of its code
KeypadLevel == IF pos \in 1..7 THEN Bit(frame.keypad, 7 - pos) = 0 ELSE TRUE

\* digitalRead(datapin): low while this object drives the line low
DataRead ==
  IF pc1550.datapin_mode = "OUTPUT" THEN FALSE
  ELSE IF clockLine THEN PanelDataLevel ELSE KeypadLevel

Init ==
  /\ pc1550 = Constructed
  /\ idle = 0
  /\ clockLine = FALSE
  /\ pos = 0
  /\ gapT = 0
  /\ frame = QuietFrame
  /\ frames = 0
  /\ observed = FALSE
  /\ starved = 0
  /\ starves = 0
  /\ pc = "main"
  /\ op = NoOp("init")
  /\ hist = NoHist
  /\ wait = NoWait
  /\ txlog = NoTx
  /\ build = "unknown"

(***************************************************************************)
(* The caller's operations.                                                *)
(***************************************************************************)
Append17(s, x) == IF Len(s) < 17 THEN Append(s, x) ELSE s

\* this call of processClockCycle() shifts by a negative count
ShiftsNegative ==
  \/ clockLine /\ ~pc1550.last_clock /\ pc1550.controller_bits_read > 15
  \/ /\ ~clockLine /\ pc1550.last_clock
     /\ ~InResyncBand(clockLine, idle)
     /\ pc1550.controller_bits_read \in 1..7
     /\ pc1550.keypad_bits_read > 6

\* one call of processClockCycle()
DoTick(inWait) ==
  LET returns == inWait /\ ProcessClockCycle(pc1550, clockLine, DataRead, PgmRead,
                                              DataRead, idle, "zero").bTransmissionEnd
      w == [wait EXCEPT !.ends = @ + B2N(returns)]
      resync == InResyncBand(clockLine, idle)
      rising == clockLine /\ ~pc1550.last_clock
      falling == ~clockLine /\ pc1550.last_clock
      position == IF resync THEN 0 ELSE pc1550.controller_bits_read
      sampled == falling /\ position \in 1..7
      h0 == IF resync
            THEN [NoHist EXCEPT !.fresh = TRUE, !.aligned = (pos = 0)]
            ELSE hist
      h1 == IF sampled THEN [h0 EXCEPT !.kp = Append17(@, DataRead)] ELSE h0
      h2 == IF rising
            THEN [h1 EXCEPT !.data = Append17(@, DataRead),
                            !.aux = Append17(@, PgmRead)]
            ELSE h1
  IN  /\ \E ub \in UBOutcomes :
           /\ build' = IF ShiftsNegative /\ build = "unknown" THEN ub ELSE build
           /\ build' \in {build, ub}
           /\ ShiftsNegative \/ ub = "zero"
           /\ pc1550' = ProcessClockCycle(pc1550, clockLine, DataRead, PgmRead,
                                          DataRead, idle, build')
      /\ idle' = IF rising THEN 0 ELSE idle
      /\ observed' = TRUE
      /\ starved' = 0
      /\ op' = [NoOp("tick") EXCEPT !.resync = resync, !.rising = rising,
                                    !.falling = falling, !.sampled = sampled,
                                    !.reset = resync /\ pc1550.controller_bits_read > 0,
                                    !.afterStarve = (starved > FramePeriod),
                                    !.fresh = h2.fresh,
                                    !.wasReady = readyForKeyPress(pc1550),
                                    !.returned = returns,
                                    !.frames = IF returns THEN w.frames ELSE 0,
                                    !.ends = IF returns THEN w.ends ELSE 0]
      /\ hist' = IF pc1550'.bTransmissionEnd THEN [h2 EXCEPT !.fresh = FALSE] ELSE h2
      /\ LET ends == resync \/ pc1550'.bTransmissionEnd
             begins == rising /\ pc1550.synchronized /\ pc1550.controller_bits_read = 0
             drives == rising /\ pc1550'.datapin_mode = "OUTPUT"
             t1 == IF ends
                   THEN [txlog EXCEPT !.open = FALSE,
                                      !.late = FALSE,
                                      !.quiet = @ \/ (txlog.open /\ ~txlog.droveInFrame)]
                   ELSE txlog
             t2 == IF begins
                   THEN [t1 EXCEPT !.open = TRUE, !.droveInFrame = FALSE, !.drove = {}]
                   ELSE t1
             t3 == IF drives
                   THEN [t2 EXCEPT !.ok = @ /\ ~(t2.newReq /\ t2.everDrove /\ ~t2.quiet),
                                   !.newReq = FALSE,
                                   !.everDrove = TRUE,
                                   !.quiet = FALSE,
                                   !.droveInFrame = TRUE,
                                   !.drove = @ \cup {pc1550'.controller_bits_read}]
                   ELSE t2
         IN  txlog' = t3
      /\ UNCHANGED <<panelVars, starves>>

\* the application's loop calls processClockCycle()
Tick ==
  /\ pc = "main"
  /\ DoTick(FALSE)
  /\ UNCHANGED <<pc, wait>>

\* the application calls sendKey(c, holdCycles)
SendKey ==
  /\ pc = "main"
  /\ observed
  /\ \E c \in SendSymbols, h \in HoldCycles :
       /\ pc1550' = sendKey(pc1550, c, h)
       /\ op' = [NoOp("sendKey") EXCEPT !.c = c,
                                        !.ret = sendKeyReturn(pc1550, c),
                                        !.wasReady = readyForKeyPress(pc1550)]
       /\ txlog' = IF sendKeyReturn(pc1550, c)
                   THEN [txlog EXCEPT !.newReq = TRUE, !.late = txlog.open]
                   ELSE txlog
  /\ UNCHANGED <<idle, panelVars, observed, starved, starves, pc, hist, wait, build>>

\* the application calls one of the accessors (keypadStateChanged(),
\* keyPressed(), keyReleased(), the light and beep tests, consecutiveBeeps(),
\* consecutiveKeyPresses(), atTransmissionEnd(), readyForKeyPress()): each
\* returns a value computed from the fields and assigns nothing
Query ==
  /\ pc = "main"
  /\ observed
  /\ pc1550' = pc1550
  /\ op' = [NoOp("query") EXCEPT !.wasReady = readyForKeyPress(pc1550)]
  /\ UNCHANGED <<idle, panelVars, observed, starved, starves, pc, hist, wait,
                 txlog, build>>

\* the application calls processTransmissionCycle()
CallWait ==
  /\ pc = "main"
  /\ frames + 2 <= MaxFrames
  /\ pc' = "wait"
  /\ wait' = NoWait
  /\ op' = NoOp("call")
  /\ UNCHANGED <<pc1550, idle, panelVars, observed, starved, starves, hist, txlog, build>>

\* one iteration of the loop of processTransmissionCycle()
WaitTick ==
  /\ pc = "wait"
  /\ DoTick(TRUE)
  /\ pc' = IF atTransmissionEnd(pc1550') THEN "main" ELSE "wait"
  /\ wait' = IF atTransmissionEnd(pc1550') THEN NoWait ELSE wait

(***************************************************************************)
(* The panel and the passage of time.  The panel changes the bus only      *)
(* after the caller has polled its last change; the intervals in which the *)
(* caller does not poll are the actions StarvePeriod and StarveToGap.      *)
(***************************************************************************)
Pass(d) == idle' = Min(idle + d, IdleCap)

\* the idle gap goes on
GapWait ==
  /\ observed
  /\ ~clockLine /\ pos = 0
  /\ \E g \in GapPoints :
       /\ g > gapT
       /\ \A h \in GapPoints : h > gapT => g <= h
       /\ pc = "wait" => (gapT < GapNominal \/ gapT \notin GapEnds)
       /\ gapT' = g
       /\ Pass(g - gapT)
  /\ observed' = FALSE
  /\ op' = NoOp("panel")
  /\ UNCHANGED <<pc1550, clockLine, pos, frame, frames, starved, starves, pc,
                 hist, wait, txlog, build>>

\* the panel begins a frame: the first clock cycle after the idle gap
FrameStart ==
  /\ observed
  /\ ~clockLine /\ pos = 0
  /\ gapT \in GapEnds
  /\ pc = "wait" => gapT >= GapNominal
  /\ frames < MaxFrames
  /\ clockLine' = TRUE
  /\ pos' = 1
  /\ gapT' = 0
  /\ frame' \in FrameKinds
  /\ frames' = frames + 1
  /\ observed' = FALSE
  /\ op' = NoOp("panel")
  /\ wait' = IF pc = "wait" THEN [wait EXCEPT !.frames = @ + 1] ELSE wait
  /\ UNCHANGED <<pc1550, idle, starved, starves, pc, hist, txlog, build>>

\* the panel begins the next clock cycle of the frame
PanelRise ==
  /\ observed
  /\ ~clockLine /\ pos \in 1..15
  /\ clockLine' = TRUE
  /\ pos' = pos + 1
  /\ Pass(HalfCycle)
  /\ observed' = FALSE
  /\ op' = NoOp("panel")
  /\ UNCHANGED <<pc1550, gapT, frame, frames, starved, starves, pc,
                 hist, wait, txlog, build>>

\* the panel ends the first half of a clock cycle; after the 16th the idle gap begins
PanelFall ==
  /\ observed
  /\ clockLine
  /\ clockLine' = FALSE
  /\ pos' = IF pos = 16 THEN 0 ELSE pos
  /\ Pass(HalfCycle)
  /\ observed' = FALSE
  /\ op' = NoOp("panel")
  /\ UNCHANGED <<pc1550, gapT, frame, frames, starved, starves, pc,
                 hist, wait, txlog, build>>

\* the time from now to the end of the 16th clock cycle of the current frame
ToFrameEnd == (16 - pos) * 2 * HalfCycle + (IF clockLine THEN HalfCycle ELSE 0)

\* the caller does not poll for one frame period: the panel is back at the
\* same place of its next frame
StarvePeriod ==
  /\ pc = "main"
  /\ observed
  /\ starves < MaxStarve
  /\ frames < MaxFrames
  /\ pos \in StarveFrom
  /\ starves' = starves + 1
  /\ frames' = frames + 1
  /\ idle' = IdleCap
  /\ starved' = FramePeriod + 1
  /\ observed' = FALSE
  /\ op' = NoOp("starve")
  /\ hist' = [hist EXCEPT !.aligned = FALSE]
  /\ UNCHANGED <<pc1550, clockLine, pos, gapT, frame, pc, wait, txlog, build>>

\* the caller does not poll from the middle of a frame until some moment of
\* the idle gap that follows it
StarveToGap ==
  /\ pc = "main"
  /\ observed
  /\ starves < MaxStarve
  /\ pos \in StarveFrom
  /\ starves' = starves + 1
  /\ \E g \in StarveUntil :
       /\ gapT' = g
       /\ idle' = Min(idle + ToFrameEnd + g, IdleCap)
       /\ starved' = Min(ToFrameEnd + g, FramePeriod + 1)
  /\ clockLine' = FALSE
  /\ pos' = 0
  /\ observed' = FALSE
  /\ op' = NoOp("starve")
  /\ hist' = [hist EXCEPT !.aligned = FALSE]
  /\ UNCHANGED <<pc1550, frame, frames, pc, wait, txlog, build>>

Next ==
  \/ Tick
  \/ SendKey
  \/ Query
  \/ CallWait
  \/ WaitTick
  \/ GapWait
  \/ FrameStart
  \/ PanelRise
  \/ PanelFall
  \/ StarvePeriod
  \/ StarveToGap

Spec == Init /\ [][Next]_vars

\* The panel is fair and the loop of processTransmissionCycle() keeps running.
SpecFair ==
  /\ Spec
  /\ WF_vars(WaitTick)
  /\ WF_vars(GapWait)
  /\ WF_vars(FrameStart)
  /\ WF_vars(PanelRise)
  /\ WF_vars(PanelFall)

(***************************************************************************)
(* Replayed frames.  A second specification in which the panel emits       *)
(* well-formed frames with the nominal idle gap and the caller polls every *)
(* change of the bus: a step is one change of the bus together with the    *)
(* call of processClockCycle() that sees it.  It uses the variables of the *)
(* first specification; starved, starves, pc, wait and build keep their    *)
(* initial values, and op, hist and txlog hold the records defined here.   *)
(***************************************************************************)
\* frames replayed at most
MaxPolled == 4

\* status words: nothing, the beep bit, another bit
PolledStatus == {0, 1, 2}
\* keypad codes on the bus: none, '5', '1', and one outside the table
PolledKeypad == {0, 34, 65, 3}
PolledKinds ==
  {[status |-> st, aux |-> 0, keypad |-> 0] : st \in PolledStatus}
    \cup {[status |-> 0, aux |-> 0, keypad |-> k] : k \in PolledKeypad}

\* what the application passes to sendKey in this specification, and the
\* panel positions after which it calls it (0: in the idle gap)
RequestSymbols == KeySymbols
RequestHolds == {1, 3}
RequestAt == {0, 8}

\* a data line on which the engine does not see what it drives itself
LineReadPanelOnly(e, f, p, clock) ==
  IF clock THEN (IF p \in 1..16 THEN Bit(f.status, 16 - p) = 1 ELSE TRUE)
  ELSE IF p \in 1..7 THEN Bit(f.keypad, 7 - p) = 0
  ELSE TRUE

\* digitalRead(datapin) at panel position p of frame f
LineRead(e, f, p, clock) ==
  IF e.datapin_mode = "OUTPUT" THEN FALSE
  ELSE IF clock THEN (IF p \in 1..16 THEN Bit(f.status, 16 - p) = 1 ELSE TRUE)
  ELSE IF p \in 1..7 THEN Bit(f.keypad, 7 - p) = 0
  ELSE TRUE

\* digitalRead(pgmpin) at panel position p of frame f
PgmAt(f, p) == IF p \in 1..16 THEN Bit(f.aux, 16 - p) = 1 ELSE FALSE

\* one call of processClockCycle() at panel position p, t microseconds
\* after the last rising edge
TickOn(e, clock, f, p, t) ==
  ProcessClockCycle(e, clock, LineRead(e, f, p, clock), PgmAt(f, p),
                    LineRead(e, f, p, clock), t, "zero")

\* hist in this specification: the keypad snapshots published by the two
\* completed frames before the last one; bit 0 of the status word of each
\* completed frame and consecutiveBeeps() after it; the status snapshot
\* before the last completed frame; whether the panel has sent nothing but
\* quiet frames
NoSeen == [kps |-> <<0, 0>>, bits |-> <<>>, beeps |-> <<>>, status |-> 0,
           quiet |-> TRUE]

\* txlog in this specification: the last accepted request.  c, n: the
\* arguments; key: its code; mid: it was accepted in the middle of a frame;
\* sent: frames in which it has been transmitted; done: frames completed
\* with it pending; active: it has not been cleared; drove, decAt: the
\* positions of the current frame at which the line was driven and at which
\* the hold-cycle count changed; tx: the current frame transmits the request
NoReq == [c |-> NUL, n |-> 0, key |-> 0, mid |-> FALSE, sent |-> 0, done |-> 0,
          active |-> FALSE, drove |-> {}, decAt |-> {}, tx |-> FALSE]

\* op in this specification: the last step; c, ret: the symbol passed to
\* sendKey and what it returned
PollOp(name) == [name |-> name, c |-> NUL, ret |-> FALSE]

InitFrames ==
  /\ pc1550 = Constructed
  /\ idle = 0
  /\ clockLine = FALSE
  /\ pos = 0
  /\ gapT = 0
  /\ frame = QuietFrame
  /\ frames = 0
  /\ observed = TRUE
  /\ starved = 0
  /\ starves = 0
  /\ pc = "main"
  /\ op = PollOp("init")
  /\ hist = NoSeen
  /\ wait = NoWait
  /\ txlog = NoReq
  /\ build = "unknown"

unpolledVars == <<observed, starved, starves, pc, wait, build>>

\* the idle gap reaches its nominal length and the caller polls
PollGap ==
  /\ pos = 0 /\ ~clockLine /\ gapT = 0
  /\ frames < MaxPolled
  /\ pc1550' = TickOn(pc1550, FALSE, frame, 0, GapNominal)
  /\ idle' = GapNominal
  /\ gapT' = GapNominal
  /\ op' = PollOp("gap")
  /\ UNCHANGED <<clockLine, pos, frame, frames, hist, txlog>>
  /\ UNCHANGED unpolledVars

\* the panel begins a clock cycle (the first one begins a frame) and the
\* caller polls
PollRise ==
  /\ ~clockLine
  /\ pos < 16
  /\ pos = 0 => gapT = GapNominal
  /\ \E f \in IF pos = 0 THEN PolledKinds ELSE {frame} :
       /\ (pos = 0 /\ txlog.c # NUL) => f = QuietFrame
       /\ LET p == pos + 1
              e == TickOn(pc1550, TRUE, f, p, idle + HalfCycle)
              t0 == IF pos = 0
                    THEN [txlog EXCEPT !.drove = {}, !.decAt = {}, !.tx = FALSE]
                    ELSE txlog
              live == t0.active /\ e.key_to_send # 0
          IN  /\ pc1550' = e
              /\ frame' = f
              /\ pos' = p
              /\ frames' = IF pos = 0 THEN frames + 1 ELSE frames
              /\ txlog' =
                   [t0 EXCEPT
                      !.drove = IF e.datapin_mode = "OUTPUT" THEN @ \cup {p} ELSE @,
                      !.decAt = IF e.keyHoldCycles # pc1550.keyHoldCycles
                                THEN @ \cup {p} ELSE @,
                      !.sent = IF t0.active /\ p = 1 /\ e.transmitting
                               THEN @ + 1 ELSE @,
                      !.tx = IF p = 1 THEN t0.active /\ e.transmitting ELSE @,
                      !.done = IF live /\ e.bTransmissionEnd THEN @ + 1 ELSE @,
                      !.active = live]
              /\ hist' =
                   IF e.bTransmissionEnd
                   THEN [hist EXCEPT
                           !.kps = <<hist.kps[2], pc1550.available_keypad_data>>,
                           !.bits = Append(@, Bit(f.status, 0)),
                           !.beeps = Append(@, consecutiveBeeps(e)),
                           !.status = pc1550.available_controller_data]
                   ELSE [hist EXCEPT !.quiet = @ /\ f = QuietFrame]
  /\ clockLine' = TRUE
  /\ idle' = 0
  /\ gapT' = 0
  /\ op' = PollOp("rise")
  /\ UNCHANGED unpolledVars

\* the panel ends the first half of a clock cycle and the caller polls
PollFall ==
  /\ clockLine
  /\ pc1550' = TickOn(pc1550, FALSE, frame, pos, idle + HalfCycle)
  /\ clockLine' = FALSE
  /\ pos' = IF pos = 16 THEN 0 ELSE pos
  /\ idle' = idle + HalfCycle
  /\ op' = PollOp("fall")
  /\ UNCHANGED <<gapT, frame, frames, hist, txlog>>
  /\ UNCHANGED unpolledVars

\* the application calls sendKey(c, holdCycles) once between two polls
RequestKey ==
  /\ hist.quiet
  /\ op.name # "sendKey"
  /\ pos \in RequestAt /\ ~clockLine
  /\ \E c \in RequestSymbols, h \in RequestHolds :
       /\ pc1550' = sendKey(pc1550, c, h)
       /\ op' = [PollOp("sendKey") EXCEPT !.c = c, !.ret = sendKeyReturn(pc1550, c)]
       /\ txlog' = IF sendKeyReturn(pc1550, c)
                   THEN [NoReq EXCEPT !.c = c, !.n = h, !.key = getKeyValue(c),
                                      !.mid = (pos # 0), !.active = TRUE,
                                      !.drove = txlog.drove, !.decAt = txlog.decAt,
                                      !.tx = FALSE]
                   ELSE txlog
  /\ UNCHANGED <<idle, clockLine, pos, gapT, frame, frames, hist>>
  /\ UNCHANGED unpolledVars

NextFrames ==
  \/ PollGap
  \/ PollRise
  \/ PollFall
  \/ RequestKey

SpecFrames == InitFrames /\ [][NextFrames]_vars

(***************************************************************************)
(* A long idle run.  A further specification in which the panel sends      *)
(* quiet frames only, every change of the bus is polled, and the           *)
(* application calls sendKey at most once, after one of a few frames.  It  *)
(* uses the records of the replayed frames.                                *)
(***************************************************************************)
\* frames in the run: more than the 256 values of cyclesWithoutKey
MaxIdleFrames == 258

\* the numbers of completed frames after which the application may call sendKey
IdleRequestAfter == {1, 255, 256, 257}

\* the idle gap reaches its nominal length and the caller polls
IdleGap ==
  /\ pos = 0 /\ ~clockLine /\ gapT = 0
  /\ frames < MaxIdleFrames
  /\ pc1550' = TickOn(pc1550, FALSE, QuietFrame, 0, GapNominal)
  /\ idle' = GapNominal
  /\ gapT' = GapNominal
  /\ op' = PollOp("gap")
  /\ UNCHANGED <<clockLine, pos, frame, frames, hist, txlog>>
  /\ UNCHANGED unpolledVars

\* the panel begins a clock cycle of a quiet frame and the caller polls
IdleRise ==
  /\ ~clockLine
  /\ pos < 16
  /\ pos = 0 => gapT = GapNominal
  /\ pc1550' = TickOn(pc1550, TRUE, QuietFrame, pos + 1, idle + HalfCycle)
  /\ pos' = pos + 1
  /\ frames' = IF pos = 0 THEN frames + 1 ELSE frames
  /\ clockLine' = TRUE
  /\ idle' = 0
  /\ gapT' = 0
  /\ op' = PollOp("rise")
  /\ UNCHANGED <<frame, hist, txlog>>
  /\ UNCHANGED unpolledVars

\* the panel ends the first half of a clock cycle and the caller polls
IdleFall ==
  /\ clockLine
  /\ pc1550' = TickOn(pc1550, FALSE, QuietFrame, pos, idle + HalfCycle)
  /\ clockLine' = FALSE
  /\ pos' = IF pos = 16 THEN 0 ELSE pos
  /\ idle' = idle + HalfCycle
  /\ op' = PollOp("fall")
  /\ UNCHANGED <<gapT, frame, frames, hist, txlog>>
  /\ UNCHANGED unpolledVars

\* the application calls sendKey('5', 1) in the idle gap or after position 1
IdleRequest ==
  /\ txlog.c = NUL
  /\ op.name # "sendKey"
  /\ frames \in IdleRequestAfter
  /\ pos \in {0, 1} /\ ~clockLine /\ gapT = 0
  /\ pc1550' = sendKey(pc1550, "5", 1)
  /\ op' = [PollOp("sendKey") EXCEPT !.c = "5", !.ret = sendKeyReturn(pc1550, "5")]
  /\ txlog' = IF sendKeyReturn(pc1550, "5")
              THEN [NoReq EXCEPT !.c = "5", !.n = 1, !.key = getKeyValue("5"),
                                 !.mid = (pos # 0), !.active = TRUE]
              ELSE txlog
  /\ UNCHANGED <<idle, clockLine, pos, gapT, frame, frames, hist>>
  /\ UNCHANGED unpolledVars

NextIdle ==
  \/ IdleGap
  \/ IdleRise
  \/ IdleFall
  \/ IdleRequest

SpecIdle == InitFrames /\ [][NextIdle]_vars

(***************************************************************************)
(* The Key Code Table on its own.  A third specification that applies      *)
(* getKeyValue() and getKeyChar() to every input: op holds the input, then *)
(* the result; the other variables keep their initial values.              *)
(***************************************************************************)
\* characters outside the table; lower case is not upper case in a switch
OtherSymbols == {"X", "D", "f", "a", "p", " ", NUL}
\* a byte
Bytes == 0..255

\* op in this specification: c, value: the symbol and the code at hand;
\* from: the symbol that was encoded, if any
CodecOp(name, c, value, from) ==
  [name |-> name, c |-> c, value |-> value, from |-> from]

InitCodec ==
  /\ pc1550 = Constructed
  /\ idle = 0
  /\ clockLine = FALSE
  /\ pos = 0
  /\ gapT = 0
  /\ frame = QuietFrame
  /\ frames = 0
  /\ observed = TRUE
  /\ starved = 0
  /\ starves = 0
  /\ pc = "main"
  /\ op \in {CodecOp("symbol", c, 0, NUL) : c \in KeySymbols \cup OtherSymbols}
            \cup {CodecOp("code", NUL, v, NUL) : v \in Bytes}
  /\ hist = NoSeen
  /\ wait = NoWait
  /\ txlog = NoReq
  /\ build = "unknown"

codecVars == <<pc1550, idle, clockLine, pos, gapT, frame, frames, observed,
               starved, starves, pc, hist, wait, txlog, build>>

\* getKeyValue(c)
Encode ==
  /\ op.name = "symbol"
  /\ op' = CodecOp("encoded", op.c, getKeyValue(op.c), op.c)
  /\ UNCHANGED codecVars

\* getKeyChar(value), of a byte or of the result of getKeyValue()
Decode ==
  /\ op.name \in {"code", "encoded"}
  /\ op' = CodecOp(IF op.name = "encoded" THEN "roundtrip" ELSE "decoded",
                   getKeyChar(op.value), op.value, op.from)
  /\ UNCHANGED codecVars

NextCodec ==
  \/ Encode
  \/ Decode

SpecCodec == InitCodec /\ [][NextCodec]_vars

(***************************************************************************)
(* Properties.                                                             *)
(***************************************************************************)
\* the step is a call of processClockCycle()
TickStep == op'.name = "tick"

\* the frame was completed by the last call of processClockCycle()
JustCompleted == pc1550.bTransmissionEnd /\ op.name = "tick"

\* C1: at the tick that completes a frame, bit (15-p) of the Available Status
\* Snapshot is the data level sampled at the tick that detected rising edge p
\* after the resynchronization, and bit (15-p) of the Available Auxiliary
\* Snapshot is the auxiliary level sampled at that tick, for p in 0..15.
C1_SnapshotsHoldSampledBits ==
  pc1550.bTransmissionEnd =>
    /\ Len(hist.data) = 16
    /\ Len(hist.aux) = 16
    /\ pc1550.available_controller_data \in 0..65535
    /\ pc1550.available_pc16out_data \in 0..65535
    /\ \A p \in 0..15 :
         /\ Bit(pc1550.available_controller_data, 15 - p) = B2N(hist.data[p + 1])
         /\ Bit(pc1550.available_pc16out_data, 15 - p) = B2N(hist.aux[p + 1])

\* a frame with the status pattern 0xA5C3 and the auxiliary pattern 0x5A3C has
\* been received whole
C1_Witness ==
  /\ JustCompleted
  /\ hist.aligned
  /\ pc1550.available_controller_data = 42435
  /\ pc1550.available_pc16out_data = 23100

\* C2: keypad bits are accumulated only on falling-edge ticks at Frame
\* Position 1..7; in a synchronized frame whose every clock edge is observed
\* seven are accumulated, and at frame completion bit (6-k) of the Available
\* Keypad Snapshot is the inverse of the level read at the k-th of them.
C2_KeypadBitsBetweenStatusBits ==
  /\ [](pc1550.bTransmissionEnd =>
          /\ hist.aligned => Len(hist.kp) = 7
          /\ Len(hist.kp) <= 7
          /\ pc1550.available_keypad_data \in 0..127
          /\ \A k \in 0..6 :
               Bit(pc1550.available_keypad_data, 6 - k)
                 = IF k < Len(hist.kp) THEN B2N(~hist.kp[k + 1]) ELSE 0)
  /\ [][/\ (TickStep /\ op'.sampled /\ pc1550.synchronized) =>
             pc1550'.keypad_bits_read = pc1550.keypad_bits_read + 1
        /\ ~(TickStep /\ op'.sampled) =>
             \/ /\ pc1550'.keypad_data = pc1550.keypad_data
                /\ pc1550'.keypad_bits_read = pc1550.keypad_bits_read
             \/ /\ TickStep /\ op'.resync
                /\ pc1550'.keypad_data = 0
                /\ pc1550'.keypad_bits_read = 0]_vars

\* a frame carrying the keypad code of '5' has been received whole
C2_Witness ==
  /\ JustCompleted
  /\ hist.aligned
  /\ pc1550.available_keypad_data = 34
  /\ Len(hist.kp) = 7

\* the band of the resynchronization test, its ends included
InclusiveBand(clock, t) == ~clock /\ t >= 25000 /\ t <= 28000

\* the band of the resynchronization test with its ends excluded
ExclusiveBand(clock, t) == ~clock /\ t > 25000 /\ t < 28000

\* the engine is synchronized at Frame Position 0 with empty accumulators
FreshlySynchronized(e) ==
  /\ e.synchronized
  /\ e.controller_bits_read = 0
  /\ e.controller_data = 0
  /\ e.pc16out_data = 0
  /\ e.keypad_bits_read = 0
  /\ e.keypad_data = 0

\* processClockCycle() without its resynchronization test
TickSkippingResync(e, clock, data, pgmData, data2, ub) ==
  LET e0 == [e EXCEPT !.bTransmissionEnd = FALSE]
      e2 == FallingEdge(e0, clock, data2, ub)
      e3 == RisingEdge(e2, clock, data, pgmData, ub)
      e4 == FrameCompletion(e3)
  IN  [e4 EXCEPT !.last_clock = clock]

TickSkipsResync ==
  \E ub \in UBOutcomes :
    pc1550' = TickSkippingResync(pc1550, clockLine, DataRead, PgmRead, DataRead, ub)

\* C3 as stated: a tick with the clock idle and the idle duration in
\* [25000, 28000] leaves the engine synchronized with Frame Position and the
\* accumulators zero; in any other tick the resynchronization test changes
\* nothing.
C3_InclusiveBandResynchronizes ==
  [][TickStep =>
       IF InclusiveBand(clockLine, idle)
       THEN FreshlySynchronized(pc1550')
       ELSE TickSkipsResync]_vars

\* C3 amended: the same with the band's ends excluded, 25000 < duration < 28000.
C3_ExclusiveBandResynchronizes ==
  [][TickStep =>
       IF ExclusiveBand(clockLine, idle)
       THEN FreshlySynchronized(pc1550')
       ELSE TickSkipsResync]_vars

\* a resynchronization has reset a Frame Position that was not zero
C3_Witness ==
  /\ op.name = "tick"
  /\ op.reset
  /\ FreshlySynchronized(pc1550)

\* C4: after a tick that completes a frame the engine is not synchronized and
\* Frame Position is 0; the Synchronization Flag becomes true only in a tick
\* whose idle-gap test passes; and a frame is completed only after a
\* resynchronization later than the previous completion, followed by exactly
\* 16 detected rising edges.
C4_SynchronizationIsNotCarriedOver ==
  /\ [](pc1550.bTransmissionEnd =>
          ~pc1550.synchronized /\ pc1550.controller_bits_read = 0)
  /\ [](JustCompleted => op.fresh /\ Len(hist.data) = 16)
  /\ [][(~pc1550.synchronized /\ pc1550'.synchronized) =>
          TickStep /\ ExclusiveBand(clockLine, idle)]_vars

\* two frames in a row have been completed
C4_Witness ==
  /\ JustCompleted
  /\ op.fresh
  /\ pc1550.iConsecutiveBeeps = 2

\* C5: after the first tick that follows a gap longer than one frame period
\* in which tick() was not called, the engine is not synchronized.
C5_StarvedTickDesynchronizes ==
  (op.name = "tick" /\ op.afterStarve) => ~pc1550.synchronized

\* this tick brings Frame Position to 16 while synchronized
Completes ==
  /\ clockLine /\ ~pc1550.last_clock
  /\ pc1550.synchronized
  /\ pc1550.controller_bits_read = 15

\* C6: after a tick atTransmissionEnd() is true if and only if that tick
\* completed a frame, and it is false after the tick that follows.
C6_TransmissionEndLastsOneTick ==
  [][TickStep =>
       /\ atTransmissionEnd(pc1550') <=> Completes
       /\ atTransmissionEnd(pc1550) => ~atTransmissionEnd(pc1550')]_vars

\* a tick has followed the tick that completed a frame
C6_Witness ==
  /\ op.name = "tick"
  /\ ~atTransmissionEnd(pc1550)
  /\ ~pc1550.synchronized
  /\ pc1550.controller_bits_read = 0
  /\ pc1550.available_controller_data = 42435
  /\ pos = 16 /\ clockLine

\* C7: against a panel that emits well-formed frames, with every edge polled,
\* processTransmissionCycle() returns; it returns at the first tick that
\* completes a frame, and that is no later than the 16th rising edge of the
\* second panel frame that starts after the call.
C7_WaitForFrameReturns ==
  /\ [](pc = "wait" =>
          /\ op.name = "tick" => ~atTransmissionEnd(pc1550)
          /\ wait.frames <= 2
          /\ ~(wait.frames = 2 /\ pos = 16 /\ observed))
  /\ [](op.returned => atTransmissionEnd(pc1550) /\ op.ends = 1 /\ op.frames <= 2)
  /\ (pc = "wait") ~> (pc = "main")

\* a call has returned at the end of the second frame that started after it
C7_Witness ==
  /\ op.returned
  /\ op.frames = 2
  /\ pc = "main"

\* C8: sendKey returns false while a key request is pending (pending key code
\* non-zero) and leaves the pending key code and the hold-cycle count as
\* they are.
C8_PendingRequestRejectsSendKey ==
  [][(op'.name = "sendKey" /\ pc1550.key_to_send # 0) =>
       /\ ~op'.ret
       /\ pc1550'.key_to_send = pc1550.key_to_send
       /\ pc1550'.keyHoldCycles = pc1550.keyHoldCycles]_vars

\* C9: sendKey with a symbol that is not one of the 15 key symbols returns
\* false and changes nothing of the engine.
C9_UnknownSymbolRejected ==
  [][(op'.name = "sendKey" /\ op'.c \notin KeySymbols) =>
       /\ ~op'.ret
       /\ pc1550' = pc1550
       /\ UNCHANGED <<idle, hist, txlog>>]_vars

\* sendKey was called with an unknown symbol while the engine was ready
C9_Witness ==
  /\ op.name = "sendKey"
  /\ op.c = "X"
  /\ op.wasReady
  /\ ~op.ret

\* C10: readyForKeyPress() is false from construction and from the tick that
\* clears a transmitted request, and becomes true only at the first rising
\* edge of a synchronized frame with no request pending; so two distinct key
\* transmissions are separated by a synchronized frame in which the line is
\* never driven low.
C10_QuietCycleBetweenKeys ==
  /\ [](op.name = "init" => ~readyForKeyPress(pc1550))
  /\ [](txlog.ok)
  /\ [][/\ (pc1550.key_to_send # 0 /\ pc1550'.key_to_send = 0) =>
             ~readyForKeyPress(pc1550')
        /\ (~readyForKeyPress(pc1550) /\ readyForKeyPress(pc1550')) =>
             /\ TickStep
             /\ clockLine /\ ~pc1550.last_clock
             /\ pc1550.synchronized
             /\ pc1550.controller_bits_read = 0
             /\ pc1550.key_to_send = 0
        /\ (op'.name = "sendKey" /\ ~readyForKeyPress(pc1550)) => ~op'.ret]_vars


\* the frame positions at which a key code calls for the line to be driven
KeyPositions(k) == {p \in 1..7 : Bit(k, 7 - p) = 1}

\* C11: at a rising-edge tick that brings Frame Position to p the line is
\* driven low afterwards if and only if the engine is in transmitting mode,
\* p is in 1..7 and bit (7-p) of the pending key code is set; hence the
\* positions driven so far in a transmitting frame are exactly the positions
\* up to p of the set bits of the pending code, and the line is not driven at
\* positions 8..16 nor outside transmitting mode.
C11_DrivenAtTheSetBitsOfTheKey ==
  [][(TickStep /\ op'.rising) =>
       LET p == pc1550'.controller_bits_read
           K == pc1550.key_to_send
       IN  /\ pc1550'.datapin_mode = "OUTPUT" <=>
                (pc1550'.transmitting /\ p \in 1..7 /\ Bit(K, 7 - p) = 1)
           /\ pc1550'.datapin_mode = "OUTPUT" => p \in 1..7
           /\ (pc1550'.transmitting /\ K # 0) =>
                txlog'.drove = {q \in KeyPositions(K) : q <= p}]_vars

\* C18: Frame Position (the count of status bits read) is always within
\* 0..16; the shift count 15 - position of a rising edge is never negative.
C18_FramePositionWithin16 ==
  /\ pc1550.controller_bits_read \in 0..16
  /\ ~ShiftsNegative

\* C19: while the engine is in a synchronized frame whose first rising edge
\* it had processed before sendKey accepted a request, the data line is not
\* driven.
C19_LateRequestWaitsForNextFrame ==
  txlog.late => pc1550.datapin_mode = "INPUT"

\* the three Available Snapshots
Snapshots(e) ==
  <<e.available_controller_data, e.available_pc16out_data, e.available_keypad_data>>

\* what the Derived State Interpreter publishes
Published(e) ==
  <<Snapshots(e), e.bKeyPressed, e.key_released_data,
    e.iConsecutiveKeyPressCycles, e.iConsecutiveBeeps, e.bStateChanged>>

\* C20: a tick that does not complete a frame leaves the Available
\* Snapshots, the pressed-key flag, the released-key value, the two counters
\* and the state-changed flag as they were; the snapshots change only in a
\* tick that brings Frame Position to 16 while synchronized; a call of an
\* accessor or of readyForKeyPress() changes nothing in the object.
C20_PublishedOnlyAtCompletion ==
  [][/\ (TickStep /\ ~Completes) => Published(pc1550') = Published(pc1550)
     /\ Snapshots(pc1550') # Snapshots(pc1550) => (TickStep /\ Completes)
     /\ op'.name = "query" => pc1550' = pc1550]_vars

\* an accessor is called after a tick that did not complete a frame while a
\* key press, a beep count and a state change are published
C20_Witness ==
  /\ op.name = "query"
  /\ ~pc1550.bTransmissionEnd
  /\ pc1550.controller_bits_read \in 1..15
  /\ pc1550.bKeyPressed
  /\ pc1550.available_keypad_data # 0
  /\ pc1550.iConsecutiveBeeps > 0
  /\ pc1550.bStateChanged

\* C22: between ticks, transmitting mode implies that the engine is
\* synchronized and that Frame Position is at most 7; transmitting mode is
\* entered only by a tick that processes the first rising edge after a
\* resynchronization with a request pending, and no tick that brings Frame
\* Position to 8 or more leaves the engine in transmitting mode.
C22_TransmittingWithinFirstSevenBits ==
  /\ [](pc1550.transmitting =>
          pc1550.synchronized /\ pc1550.controller_bits_read <= 7)
  /\ [][/\ (~pc1550.transmitting /\ pc1550'.transmitting) =>
             /\ TickStep
             /\ clockLine /\ ~pc1550.last_clock
             /\ pc1550.synchronized
             /\ pc1550.controller_bits_read = 0
             /\ pc1550.key_to_send # 0
        /\ (TickStep /\ pc1550'.controller_bits_read >= 8) =>
             ~pc1550'.transmitting]_vars

\* the seventh bit of a transmitting frame has been processed
C22_Witness ==
  /\ op.name = "tick" /\ op.rising
  /\ pc1550.transmitting
  /\ pc1550.synchronized
  /\ pc1550.controller_bits_read = 7
  /\ pc1550.datapin_mode = "OUTPUT"

\* this tick samples a keypad bit
SamplesKeypad ==
  /\ ~clockLine /\ pc1550.last_clock
  /\ ~InResyncBand(clockLine, idle)
  /\ pc1550.controller_bits_read \in 1..7

\* C23: the keypad bit counter is at most 7, and no keypad bit is sampled
\* when it is 7 or more, so the shift count 6 - keypad_bits_read is never
\* negative.
C23_KeypadCounterAtMost7 ==
  /\ pc1550.keypad_bits_read <= 7
  /\ SamplesKeypad => pc1550.keypad_bits_read <= 6

(***************************************************************************)
(* Properties of the replayed frames (specification SpecFrames).           *)
(***************************************************************************)
\* the last accepted request has been cleared
RequestCleared == txlog.c # NUL /\ ~txlog.active

\* C12 as stated: a request accepted by sendKey(c, N) is still pending at
\* the completion of exactly N frames before it is cleared.
C12_PendingAcrossNCompletions ==
  RequestCleared => txlog.done = txlog.n

\* C12: while every edge of well-formed frames is polled, a request accepted
\* by sendKey(c, N) is transmitted in the N frames that begin after it was
\* accepted and in no other; the hold-cycle count changes only at position 7
\* of a transmitting frame, by one; the request is cleared at position 7 of
\* the N-th of these frames, so that it is pending at the completion of N
\* frames if it was accepted in the middle of a frame and of N - 1 frames if
\* it was accepted in the idle gap.
C12_TransmittedInNFrames ==
  /\ txlog.decAt \subseteq {7}
  /\ txlog.active =>
       /\ pc1550.key_to_send = txlog.key
       /\ txlog.sent <= txlog.n
       /\ txlog.sent = txlog.n => pos \in 1..6
       /\ pc1550.keyHoldCycles =
            txlog.n - txlog.sent + (IF txlog.sent > 0 /\ pos \in 1..6 THEN 1 ELSE 0)
       /\ (pos \in 1..7 /\ (txlog.sent > 0 \/ ~txlog.mid)) =>
            /\ pc1550.transmitting
            /\ pc1550.synchronized
       /\ pos \in 1..6 => txlog.decAt = {}
  /\ (txlog.c # NUL /\ pos \in 1..7 /\ pc1550.transmitting) =>
       txlog.drove = {q \in KeyPositions(txlog.key) : q <= pos}
  /\ RequestCleared =>
       /\ pc1550.key_to_send = 0 /\ pc1550.keyHoldCycles = 0
       /\ txlog.sent = txlog.n
       /\ txlog.done = txlog.n - 1 + (IF txlog.mid THEN 1 ELSE 0)

C12_Witness ==
  /\ RequestCleared
  /\ txlog.c = "5" /\ txlog.n = 3 /\ ~txlog.mid
  /\ txlog.sent = 3 /\ txlog.done = 2
  /\ pos = 7 /\ txlog.decAt = {7} /\ txlog.drove = {2, 6}

\* the last poll completed a frame; before it the keypad snapshot was b, and
\* before the frame that published b it was a
CompletedAfter(a, b) ==
  /\ pc1550.bTransmissionEnd
  /\ frames >= 3
  /\ hist.kps = <<a, b>>

\* C13: after a completed frame with keypad snapshot 0, a completed frame
\* carrying a non-zero code K and a completed frame carrying code 0,
\* keyReleased() returns the symbol of K, keyPressed() returns no symbol and
\* consecutiveKeyPresses() is zero.
C13_ReleaseResetsPressCount ==
  \A K \in PolledKeypad \ {0} :
    (CompletedAfter(0, K) /\ pc1550.available_keypad_data = 0) =>
      /\ keyReleased(pc1550) = getKeyChar(K)
      /\ keyPressed(pc1550) = NUL
      /\ consecutiveKeyPresses(pc1550) = 0

\* the part of C13 that the code provides: the release is reported
C13_ReleaseReported ==
  \A K \in PolledKeypad \ {0} :
    (CompletedAfter(0, K) /\ pc1550.available_keypad_data = 0) =>
      /\ keyReleased(pc1550) = getKeyChar(K)
      /\ keyPressed(pc1550) = NUL
      /\ consecutiveKeyPresses(pc1550) = 1

\* the keypad codes replayed that are in the Key Code Table
TableCodes == {K \in PolledKeypad : getKeyChar(K) # NUL}

\* C14: for a code K of the Key Code Table, after a completed frame with
\* keypad snapshot 0 and a completed frame carrying K, keyPressed() returns
\* the symbol of K, consecutiveKeyPresses() is 1 and keyReleased() returns no
\* symbol; after a second completed frame carrying K, keyPressed() returns no
\* symbol, consecutiveKeyPresses() is 2 and keyReleased() returns no symbol.
C14_PressedThenHeld ==
  \A K \in TableCodes :
    /\ (pc1550.bTransmissionEnd /\ frames >= 2 /\ hist.kps[2] = 0
           /\ pc1550.available_keypad_data = K) =>
         /\ keyPressed(pc1550) = getKeyChar(K)
         /\ consecutiveKeyPresses(pc1550) = 1
         /\ keyReleased(pc1550) = NUL
    /\ (CompletedAfter(0, K) /\ pc1550.available_keypad_data = K) =>
         /\ keyPressed(pc1550) = NUL
         /\ consecutiveKeyPresses(pc1550) = 2
         /\ keyReleased(pc1550) = NUL

C14_Witness ==
  /\ CompletedAfter(0, 34) /\ pc1550.available_keypad_data = 34
  /\ frame.keypad = 34
  /\ keyPressed(pc1550) = NUL /\ consecutiveKeyPresses(pc1550) = 2

\* the step is a poll of the bus
PollStep == op'.name \in {"gap", "rise", "fall"}

\* the number of 1s at the end of a sequence of bits
RECURSIVE RunLength(_)
RunLength(q) ==
  IF q = <<>> \/ q[Len(q)] = 0 THEN 0
  ELSE 1 + RunLength(SubSeq(q, 1, Len(q) - 1))

\* C15: consecutiveBeeps() is the number of most recent consecutive
\* completed frames whose status word has bit 0 set: a poll that completes a
\* frame with the bit set adds one to it, a poll that completes a frame
\* without it sets it to zero, and no other poll changes it.
C15_BeepRunLength ==
  [][PollStep =>
     /\ consecutiveBeeps(pc1550') = RunLength(hist'.bits)
     /\ pc1550'.bTransmissionEnd =>
          consecutiveBeeps(pc1550') =
            IF Bit(pc1550'.available_controller_data, 0) = 1
            THEN consecutiveBeeps(pc1550) + 1 ELSE 0
     /\ ~pc1550'.bTransmissionEnd =>
          consecutiveBeeps(pc1550') = consecutiveBeeps(pc1550)]_vars

C15_Witness ==
  /\ pc1550.bTransmissionEnd
  /\ hist.bits = <<1, 1, 0, 1>>
  /\ hist.beeps = <<1, 2, 0, 1>>
  /\ consecutiveBeeps(pc1550) = 1

\* C16: after a poll that completes a frame, keypadStateChanged() is true
\* if and only if the status snapshot it published (the status word of the
\* frame) differs from the one published before (zero at first); so it is
\* false after a frame that repeats the status word of the frame before.
C16_StateChangedComparesSnapshots ==
  pc1550.bTransmissionEnd =>
    /\ pc1550.available_controller_data = frame.status
    /\ keypadStateChanged(pc1550) <=> (frame.status # hist.status)

C16_Witness ==
  /\ pc1550.bTransmissionEnd
  /\ frames = 2
  /\ hist.bits = <<1, 1>>
  /\ hist.status = 1 /\ frame.status = 1
  /\ ~keypadStateChanged(pc1550)

\* the keypad samples taken so far in the current frame
SamplesTaken == IF pos = 0 THEN 0 ELSE Min(IF clockLine THEN pos - 1 ELSE pos, 7)

\* C21: in a frame in which the engine transmits the code K of a key symbol
\* and no keypad drives the line, the keypad bit sampled at the falling edge
\* that follows rising edge p is bit 7 - p of K, for p in 1..7, and the frame
\* completes with the Available Keypad Snapshot equal to K.
C21_OwnKeyReadBack ==
  (txlog.tx /\ pos \in 1..16) =>
    /\ txlog.key = getKeyValue(txlog.c)
    /\ \A q \in 1..SamplesTaken :
         Bit(pc1550.keypad_data, 7 - q) = Bit(txlog.key, 7 - q)
    /\ pc1550.bTransmissionEnd => pc1550.available_keypad_data = txlog.key

\* every key symbol has been transmitted and read back
C21_Witness ==
  /\ pc1550.bTransmissionEnd
  /\ txlog.tx
  /\ txlog.c = "#"
  /\ pc1550.available_keypad_data = 24
  /\ keyPressed(pc1550) = "#"

(***************************************************************************)
(* Properties of the Key Code Table (specification SpecCodec).             *)
(***************************************************************************)
\* C17: getKeyChar(getKeyValue(s)) = s for each of the 15 key symbols; their
\* codes are pairwise distinct, not zero and below 128; getKeyValue() of any
\* other character is 0; getKeyChar() of a byte that is the code of no
\* symbol, 0 included, is the null character.
C17_KeyCodeTableRoundTrips ==
  /\ Cardinality(KeySymbols) = 15
  /\ \A a, b \in KeySymbols : a # b => getKeyValue(a) # getKeyValue(b)
  /\ op.name = "encoded" =>
       IF op.c \in KeySymbols THEN op.value \in 1..127 ELSE op.value = 0
  /\ op.name = "roundtrip" =>
       op.c = IF op.from \in KeySymbols THEN op.from ELSE NUL
  /\ op.name = "decoded" =>
       IF \E a \in KeySymbols : getKeyValue(a) = op.value
       THEN op.c \in KeySymbols /\ getKeyValue(op.c) = op.value
       ELSE op.c = NUL

C17_Witness ==
  /\ op.name = "roundtrip"
  /\ op.from = "5" /\ op.value = 34 /\ op.c = "5"

(***************************************************************************)
(* Properties of the long idle run (specification SpecIdle).               *)
(***************************************************************************)
\* C24: as long as no sendKey call has been accepted, a step from a state in
\* which readyForKeyPress() is true leads to a state in which it is true,
\* and the without-key-cycle counter does not return to 0.
C24_ReadyUntilRequest ==
  [][(txlog.c = NUL /\ txlog'.c = NUL /\ readyForKeyPress(pc1550)) =>
       /\ readyForKeyPress(pc1550')
       /\ pc1550'.cyclesWithoutKey # 0]_vars

====
